---------------------------- MODULE Spec2Model ----------------------------
(***************************************************************************)
(* Model of the booking controller, source/controllers/bookings.ts:       *)
(* createBooking / isBookingPossible and extendBooking over the bookings   *)
(* table reached through prisma.booking.                                   *)
(*                                                                         *)
(* Dates are whole days, modelled as integers (day numbers); addNights     *)
(* and Date.setDate(getDate() + n) are day additions.  Requests are        *)
(* executed one at a time: each action is one whole handler invocation.    *)
(* `last` records the request just handled and the response sent, plus    *)
(* the number of prisma reads and writes the handler performed; `before`   *)
(* is the table as that request found it.                                  *)
(*                                                                         *)
(* SpecConc and SpecSerial run two handler invocations side by side, one   *)
(* step per prisma call (the handlers' await points); `procs` holds each   *)
(* invocation's position, request, locals and response, and `before` is    *)
(* the table as the two requests found it.                                 *)
(***************************************************************************)
EXTENDS Integers, FiniteSets

VARIABLES store, nextId, last, before, procs

vars == <<store, nextId, last, before, procs>>

-----------------------------------------------------------------------------
(* Bounds of the model *)

MaxDay == 1

MaxNights == 2

(* Request inputs *)

Guests == {"GuestA", "GuestB"}

Units == {"1", "2"}

Days == 0..MaxDay

\* createBooking performs no validation of numberOfNights: zero and negative
\* integers reach prisma.booking.create like any other.
NightsInputs == (0 - 1)..MaxNights

\* Latest checkout day the model lets an extension reach.
Horizon == MaxDay + MaxNights

\* req.body.extraNights as received: a JSON number, a numeric string ("1")
\* or a non-numeric string ("abc").  Numbers are whole: a fractional or
\* infinite extraNights passes the validation and fails inside prisma, which
\* is outside this model.
RawExtraNights ==
    [kind : {"number"}, val : (0 - 1)..MaxNights]
        \cup {[kind |-> "numstr", val |-> 1],
              [kind |-> "text", val |-> 0]}

\* Ids a request may name: every id ever assigned and one never assigned.
IdInputs == 1..(Cardinality(Guests) + 1)

-----------------------------------------------------------------------------
(* Response messages *)

MSG_GUEST_UNIT_DUPLICATE == "The given guest name cannot book the same unit multiple times"

MSG_GUEST_ALREADY_BOOKED == "The same guest cannot be in multiple units at the same time"

MSG_UNIT_OCCUPIED == "For the given check-in date, the unit is already occupied"

MSG_INVALID_EXTRA_NIGHTS == "Extra nights should be a valid number"

MSG_BOOKING_NOT_FOUND == "Booking not found"

MSG_EXTENSION_CONFLICT == "Extension not possible; unit is taken in that period"

MSG_OK == "OK"

\* Body of a response that carries no booking record.
NoBooking ==
    [id |-> 0, guestName |-> "", unitID |-> "", checkInDate |-> 0, numberOfNights |-> 0]

-----------------------------------------------------------------------------
(* Pure helpers *)

addNights(date, nights) == date + nights

\* Number(x): NaN for what does not parse as a number.
ToNumber(raw) ==
    IF raw.kind \in {"number", "numstr"}
        THEN [nan |-> FALSE, val |-> raw.val]
        ELSE [nan |-> TRUE, val |-> 0]

\* A validation that lets zero through: extraNights < 0.
InvalidExtraNights_Mut(num) == num.nan \/ num.val < 0

\* !extraNights || extraNights <= 0
InvalidExtraNights(num) == num.nan \/ num.val = 0 \/ num.val <= 0

-----------------------------------------------------------------------------
(* isBookingPossible *)

\* A duplicate check scoped to the check-in date.
sameGuestSameUnit_Mut(booking, s) ==
    {b \in s : /\ b.guestName = booking.guestName
               /\ b.unitID = booking.unitID
               /\ b.checkInDate = booking.checkInDate}

sameGuestSameUnit(booking, s) ==
    {b \in s : b.guestName = booking.guestName /\ b.unitID = booking.unitID}

\* A guest check scoped to the check-in date.
sameGuestAlreadyBooked_Mut(booking, s) ==
    {b \in s : b.guestName = booking.guestName /\ b.checkInDate = booking.checkInDate}

sameGuestAlreadyBooked(booking, s) ==
    {b \in s : b.guestName = booking.guestName}

isUnitAvailableOnCheckInDate(booking, s) ==
    {b \in s : b.checkInDate = booking.checkInDate /\ b.unitID = booking.unitID}

\* A candidate query without the unitID filter.
unitCandidates_Mut(booking, s) ==
    {b \in s : b.checkInDate < addNights(booking.checkInDate, booking.numberOfNights)}

unitCandidates(booking, s) ==
    {b \in s : b.unitID = booking.unitID
               /\ b.checkInDate < addNights(booking.checkInDate, booking.numberOfNights)}

overlaps(newCheckIn, newCheckOut, bCheckIn, bCheckOut) ==
    newCheckIn < bCheckOut /\ bCheckIn < newCheckOut

\* The guest check placed before the guest-and-unit check.
isBookingPossible_Mut(booking, s) ==
    IF sameGuestAlreadyBooked(booking, s) # {}
        THEN [result |-> FALSE, reason |-> MSG_GUEST_ALREADY_BOOKED, reads |-> 1]
    ELSE IF sameGuestSameUnit(booking, s) # {}
        THEN [result |-> FALSE, reason |-> MSG_GUEST_UNIT_DUPLICATE, reads |-> 2]
    ELSE IF isUnitAvailableOnCheckInDate(booking, s) # {}
        THEN [result |-> FALSE, reason |-> MSG_UNIT_OCCUPIED, reads |-> 3]
    ELSE IF \E b \in unitCandidates(booking, s) :
               overlaps(booking.checkInDate,
                        addNights(booking.checkInDate, booking.numberOfNights),
                        b.checkInDate,
                        addNights(b.checkInDate, b.numberOfNights))
        THEN [result |-> FALSE, reason |-> MSG_UNIT_OCCUPIED, reads |-> 4]
    ELSE [result |-> TRUE, reason |-> MSG_OK, reads |-> 4]

isBookingPossible(booking, s) ==
    IF sameGuestSameUnit(booking, s) # {}
        THEN [result |-> FALSE, reason |-> MSG_GUEST_UNIT_DUPLICATE, reads |-> 1]
    ELSE IF sameGuestAlreadyBooked(booking, s) # {}
        THEN [result |-> FALSE, reason |-> MSG_GUEST_ALREADY_BOOKED, reads |-> 2]
    ELSE IF isUnitAvailableOnCheckInDate(booking, s) # {}
        THEN [result |-> FALSE, reason |-> MSG_UNIT_OCCUPIED, reads |-> 3]
    ELSE IF \E b \in unitCandidates(booking, s) :
               overlaps(booking.checkInDate,
                        addNights(booking.checkInDate, booking.numberOfNights),
                        b.checkInDate,
                        addNights(b.checkInDate, b.numberOfNights))
        THEN [result |-> FALSE, reason |-> MSG_UNIT_OCCUPIED, reads |-> 4]
    ELSE [result |-> TRUE, reason |-> MSG_OK, reads |-> 4]

-----------------------------------------------------------------------------
(* createBooking *)

\* A create that ignores the id the table assigns.
bookingResult_Mut(booking, id) ==
    [id |-> 1,
     guestName |-> booking.guestName,
     unitID |-> booking.unitID,
     checkInDate |-> booking.checkInDate,
     numberOfNights |-> booking.numberOfNights]

\* prisma.booking.create: the record stored, with the id the table assigns.
bookingResult(booking, id) ==
    [id |-> id,
     guestName |-> booking.guestName,
     unitID |-> booking.unitID,
     checkInDate |-> booking.checkInDate,
     numberOfNights |-> booking.numberOfNights]

\* A handler that creates the record before it looks at the outcome.
createBooking_Mut(booking) ==
    LET outcome == isBookingPossible(booking, store) IN
    /\ before' = store
    /\ store' = store \cup {bookingResult(booking, nextId)}
    /\ nextId' = nextId + 1
    /\ IF ~outcome.result
        THEN last' = [op |-> "create", req |-> booking, status |-> 400,
                      reason |-> outcome.reason, body |-> NoBooking,
                      reads |-> outcome.reads, writes |-> 1]
        ELSE last' = [op |-> "create", req |-> booking, status |-> 200,
                      reason |-> MSG_OK, body |-> bookingResult(booking, nextId),
                      reads |-> outcome.reads, writes |-> 1]

createBooking(booking) ==
    LET outcome == isBookingPossible(booking, store) IN
    /\ before' = store
    /\ IF ~outcome.result
        THEN /\ last' = [op |-> "create", req |-> booking, status |-> 400,
                         reason |-> outcome.reason, body |-> NoBooking,
                         reads |-> outcome.reads, writes |-> 0]
             /\ UNCHANGED <<store, nextId>>
        ELSE /\ store' = store \cup {bookingResult(booking, nextId)}
             /\ nextId' = nextId + 1
             /\ last' = [op |-> "create", req |-> booking, status |-> 200,
                         reason |-> MSG_OK, body |-> bookingResult(booking, nextId),
                         reads |-> outcome.reads, writes |-> 1]

CreateBooking ==
    /\ \E g \in Guests, u \in Units, d \in Days, n \in NightsInputs :
          createBooking([guestName |-> g, unitID |-> u,
                         checkInDate |-> d, numberOfNights |-> n])
    /\ UNCHANGED procs

-----------------------------------------------------------------------------
(* extendBooking *)

\* A lookup that ignores the id.
findUnique_Mut(bookingId, s) == s

\* prisma.booking.findUnique({ where: { id } }): the bookings with that id
\* (none or one).
findUnique(bookingId, s) == {b \in s : b.id = bookingId}

currentCheckout(booking) == addNights(booking.checkInDate, booking.numberOfNights)

proposedCheckout(booking, extraNights) ==
    addNights(currentCheckout(booking), extraNights)

conflictingBookings(booking, extraNights, s) ==
    {o \in s : /\ o.unitID = booking.unitID
               /\ o.id # booking.id
               /\ o.checkInDate < proposedCheckout(booking, extraNights)}

extensionConflict(booking, extraNights, s) ==
    \E other \in conflictingBookings(booking, extraNights, s) :
        /\ currentCheckout(booking) < addNights(other.checkInDate, other.numberOfNights)
        /\ other.checkInDate < proposedCheckout(booking, extraNights)

\* An update that stores extraNights instead of adding it.
updatedBooking_Mut(booking, extraNights) ==
    [booking EXCEPT !.numberOfNights = extraNights]

updatedBooking(booking, extraNights) ==
    [booking EXCEPT !.numberOfNights = booking.numberOfNights + extraNights]

\* A handler that updates the booking before it scans for conflicts.
extendBooking_Mut(bookingId, raw) ==
    LET extraNights == ToNumber(raw)
        req == [id |-> bookingId, extraNights |-> raw]
        found == findUnique(bookingId, store)
        booking == CHOOSE b \in found : TRUE
    IN
    /\ before' = store
    /\ IF InvalidExtraNights(extraNights)
          THEN /\ last' = [op |-> "extend", req |-> req, status |-> 400,
                           reason |-> MSG_INVALID_EXTRA_NIGHTS, body |-> NoBooking,
                           reads |-> 0, writes |-> 0]
               /\ UNCHANGED <<store, nextId>>
          ELSE IF found = {}
          THEN /\ last' = [op |-> "extend", req |-> req, status |-> 404,
                           reason |-> MSG_BOOKING_NOT_FOUND, body |-> NoBooking,
                           reads |-> 1, writes |-> 0]
               /\ UNCHANGED <<store, nextId>>
          ELSE /\ proposedCheckout(booking, extraNights.val) <= Horizon
               /\ store' = (store \ {booking})
                              \cup {updatedBooking(booking, extraNights.val)}
               /\ UNCHANGED nextId
               /\ IF extensionConflict(booking, extraNights.val, store)
                     THEN last' = [op |-> "extend", req |-> req, status |-> 409,
                                   reason |-> MSG_EXTENSION_CONFLICT,
                                   body |-> NoBooking,
                                   reads |-> 2, writes |-> 1]
                     ELSE last' = [op |-> "extend", req |-> req, status |-> 200,
                                   reason |-> MSG_OK,
                                   body |-> updatedBooking(booking, extraNights.val),
                                   reads |-> 2, writes |-> 1]

extendBooking(bookingId, raw) ==
    LET extraNights == ToNumber(raw)
        req == [id |-> bookingId, extraNights |-> raw]
        found == findUnique(bookingId, store)
        booking == CHOOSE b \in found : TRUE
    IN
    /\ before' = store
    /\ IF InvalidExtraNights(extraNights)
          THEN /\ last' = [op |-> "extend", req |-> req, status |-> 400,
                           reason |-> MSG_INVALID_EXTRA_NIGHTS, body |-> NoBooking,
                           reads |-> 0, writes |-> 0]
               /\ UNCHANGED <<store, nextId>>
          ELSE IF found = {}
          THEN /\ last' = [op |-> "extend", req |-> req, status |-> 404,
                           reason |-> MSG_BOOKING_NOT_FOUND, body |-> NoBooking,
                           reads |-> 1, writes |-> 0]
               /\ UNCHANGED <<store, nextId>>
          ELSE /\ proposedCheckout(booking, extraNights.val) <= Horizon
               /\ IF extensionConflict(booking, extraNights.val, store)
                     THEN /\ last' = [op |-> "extend", req |-> req, status |-> 409,
                                      reason |-> MSG_EXTENSION_CONFLICT,
                                      body |-> NoBooking,
                                      reads |-> 2, writes |-> 0]
                          /\ UNCHANGED <<store, nextId>>
                     ELSE /\ store' = (store \ {booking})
                                         \cup {updatedBooking(booking, extraNights.val)}
                          /\ last' = [op |-> "extend", req |-> req, status |-> 200,
                                      reason |-> MSG_OK,
                                      body |-> updatedBooking(booking, extraNights.val),
                                      reads |-> 2, writes |-> 1]
                          /\ UNCHANGED nextId

ExtendBooking ==
    /\ \E bookingId \in IdInputs, raw \in RawExtraNights :
          extendBooking(bookingId, raw)
    /\ UNCHANGED procs

-----------------------------------------------------------------------------
(* Handler invocations in flight *)

\* The two invocations that run side by side.
Procs == {1, 2}

\* An invocation that has not received its request.
IdleProc ==
    [pc |-> "idle", op |-> "none", req |-> NoBooking, booking |-> NoBooking,
     status |-> 0, reason |-> "", body |-> NoBooking]

-----------------------------------------------------------------------------
(* The table starts empty; no request has been handled. *)

Init ==
    /\ store = {}
    /\ nextId = 1
    /\ last = [op |-> "none", req |-> NoBooking, status |-> 0, reason |-> "",
               body |-> NoBooking, reads |-> 0, writes |-> 0]
    /\ before = {}
    /\ procs = [p \in Procs |-> IdleProc]

Next == CreateBooking \/ ExtendBooking

Spec == Init /\ [][Next]_vars

-----------------------------------------------------------------------------
(* Two invocations interleaved at their await points.  Each action is one    *)
(* prisma call together with the synchronous code that follows it up to the *)
(* next await or the response.                                              *)

Candidates ==
    [guestName : Guests, unitID : Units, checkInDate : Days,
     numberOfNights : NightsInputs]

\* Tables the two requests may find: empty, or holding the one booking that a
\* create request of GuestA for unit 1 on the empty table stored (the handlers
\* only compare guest and unit names, so one name of each stands for any).
InitStores ==
    {{}} \cup {{bookingResult(b, 1)} :
                  b \in {c \in Candidates : /\ c.guestName = "GuestA"
                                            /\ c.unitID = "1"
                                            /\ isBookingPossible(c, {}).result}}

InitConc ==
    /\ store \in InitStores
    /\ nextId = Cardinality(store) + 1
    /\ before = store
    /\ last = [op |-> "none", req |-> NoBooking, status |-> 0, reason |-> "",
               body |-> NoBooking, reads |-> 0, writes |-> 0]
    /\ procs = [p \in Procs |-> IdleProc]

\* res.status(...).json(...): the invocation ends with this response.
Respond(p, status, reason, body) ==
    procs' = [procs EXCEPT ![p].pc = "done", ![p].status = status,
                           ![p].reason = reason, ![p].body = body]

Goto(p, pc) == procs' = [procs EXCEPT ![p].pc = pc]

\* createBooking receives the request; isBookingPossible runs check 1.
StartCreate(p, booking) ==
    /\ procs[p].pc = "idle"
    /\ IF sameGuestSameUnit(booking, store) # {}
          THEN procs' = [procs EXCEPT ![p] =
                    [IdleProc EXCEPT !.pc = "done", !.op = "create",
                                     !.req = booking, !.status = 400,
                                     !.reason = MSG_GUEST_UNIT_DUPLICATE]]
          ELSE procs' = [procs EXCEPT ![p] =
                    [IdleProc EXCEPT !.pc = "check2", !.op = "create",
                                     !.req = booking]]
    /\ UNCHANGED <<store, nextId, last, before>>

\* isBookingPossible, check 2.
Check2(p) ==
    /\ procs[p].pc = "check2"
    /\ IF sameGuestAlreadyBooked(procs[p].req, store) # {}
          THEN Respond(p, 400, MSG_GUEST_ALREADY_BOOKED, NoBooking)
          ELSE Goto(p, "check3")
    /\ UNCHANGED <<store, nextId, last, before>>

\* isBookingPossible, check 3.
Check3(p) ==
    /\ procs[p].pc = "check3"
    /\ IF isUnitAvailableOnCheckInDate(procs[p].req, store) # {}
          THEN Respond(p, 400, MSG_UNIT_OCCUPIED, NoBooking)
          ELSE Goto(p, "check4")
    /\ UNCHANGED <<store, nextId, last, before>>

\* isBookingPossible, the candidate query and the overlap loop.
Check4(p) ==
    LET booking == procs[p].req IN
    /\ procs[p].pc = "check4"
    /\ IF \E b \in unitCandidates(booking, store) :
               overlaps(booking.checkInDate,
                        addNights(booking.checkInDate, booking.numberOfNights),
                        b.checkInDate,
                        addNights(b.checkInDate, b.numberOfNights))
          THEN Respond(p, 400, MSG_UNIT_OCCUPIED, NoBooking)
          ELSE Goto(p, "create")
    /\ UNCHANGED <<store, nextId, last, before>>

\* A create that validates the candidate again in the statement that inserts it.
CommitCreate_Mut(p) ==
    /\ procs[p].pc = "create"
    /\ IF isBookingPossible(procs[p].req, store).result
          THEN /\ store' = store \cup {bookingResult(procs[p].req, nextId)}
               /\ nextId' = nextId + 1
               /\ Respond(p, 200, MSG_OK, bookingResult(procs[p].req, nextId))
          ELSE /\ Respond(p, 400, isBookingPossible(procs[p].req, store).reason,
                          NoBooking)
               /\ UNCHANGED <<store, nextId>>
    /\ UNCHANGED <<last, before>>

\* createBooking, prisma.booking.create and the 200 response.
CommitCreate(p) ==
    /\ procs[p].pc = "create"
    /\ store' = store \cup {bookingResult(procs[p].req, nextId)}
    /\ nextId' = nextId + 1
    /\ Respond(p, 200, MSG_OK, bookingResult(procs[p].req, nextId))
    /\ UNCHANGED <<last, before>>

\* extendBooking receives the request, validates extraNights and looks the
\* booking up.
StartExtend(p, bookingId, raw) ==
    LET extraNights == ToNumber(raw)
        req == [id |-> bookingId, extraNights |-> raw]
        found == findUnique(bookingId, store)
        booking == CHOOSE b \in found : TRUE
        started == [IdleProc EXCEPT !.op = "extend", !.req = req]
    IN
    /\ procs[p].pc = "idle"
    /\ IF InvalidExtraNights(extraNights)
          THEN procs' = [procs EXCEPT ![p] =
                    [started EXCEPT !.pc = "done", !.status = 400,
                                    !.reason = MSG_INVALID_EXTRA_NIGHTS]]
          ELSE IF found = {}
          THEN procs' = [procs EXCEPT ![p] =
                    [started EXCEPT !.pc = "done", !.status = 404,
                                    !.reason = MSG_BOOKING_NOT_FOUND]]
          ELSE /\ proposedCheckout(booking, extraNights.val) <= Horizon
               /\ procs' = [procs EXCEPT ![p] =
                    [started EXCEPT !.pc = "scan", !.booking = booking]]
    /\ UNCHANGED <<store, nextId, last, before>>

\* extendBooking, the conflict query and its loop.
Scan(p) ==
    /\ procs[p].pc = "scan"
    /\ IF extensionConflict(procs[p].booking,
                            ToNumber(procs[p].req.extraNights).val, store)
          THEN Respond(p, 409, MSG_EXTENSION_CONFLICT, NoBooking)
          ELSE Goto(p, "update")
    /\ UNCHANGED <<store, nextId, last, before>>

\* extendBooking, prisma.booking.update and the 200 response: the row with
\* the booking's id gets numberOfNights computed from the booking as read.
CommitUpdate(p) ==
    LET updated == updatedBooking(procs[p].booking,
                                  ToNumber(procs[p].req.extraNights).val)
    IN
    /\ procs[p].pc = "update"
    /\ store' = {b \in store : b.id # procs[p].booking.id} \cup {updated}
    /\ Respond(p, 200, MSG_OK, updated)
    /\ UNCHANGED <<nextId, last, before>>

\* Ids a request may name when two requests run: the booking the table may
\* hold at first, and the one the other request may create.
ConcIdInputs == 1..Cardinality(Procs)

NextConc ==
    \E p \in Procs :
        \/ \E booking \in Candidates : StartCreate(p, booking)
        \/ Check2(p)
        \/ Check3(p)
        \/ Check4(p)
        \/ CommitCreate(p)
        \/ \E bookingId \in ConcIdInputs, raw \in RawExtraNights :
              StartExtend(p, bookingId, raw)
        \/ Scan(p)
        \/ CommitUpdate(p)

SpecConc == InitConc /\ [][NextConc]_vars

-----------------------------------------------------------------------------
(* The same invocations under the serialization the caller is to supply: a  *)
(* request's sequence of reads, checks and write runs without any other     *)
(* request on the same unit or the same guest in flight; requests on other *)
(* units and guests interleave freely.                                      *)

InFlight(q) == procs[q].pc \notin {"idle", "done"}

\* The booking whose unit and guest an invocation in flight works on: the
\* candidate of a create, the booking read by an extend.
Held(q) == IF procs[q].op = "create" THEN procs[q].req ELSE procs[q].booking

Exclusive(p, unitID, guestName) ==
    \A q \in Procs \ {p} :
        InFlight(q) => /\ Held(q).unitID # unitID
                       /\ Held(q).guestName # guestName

SerialStartCreate(p, booking) ==
    /\ Exclusive(p, booking.unitID, booking.guestName)
    /\ StartCreate(p, booking)

SerialStartExtend(p, bookingId, raw) ==
    /\ \A b \in findUnique(bookingId, store) :
          ~InvalidExtraNights(ToNumber(raw))
              => Exclusive(p, b.unitID, b.guestName)
    /\ StartExtend(p, bookingId, raw)

NextSerial ==
    \E p \in Procs :
        \/ \E booking \in Candidates : SerialStartCreate(p, booking)
        \/ Check2(p)
        \/ Check3(p)
        \/ Check4(p)
        \/ CommitCreate(p)
        \/ \E bookingId \in ConcIdInputs, raw \in RawExtraNights :
              SerialStartExtend(p, bookingId, raw)
        \/ Scan(p)
        \/ CommitUpdate(p)

SpecSerial == InitConc /\ [][NextSerial]_vars

-----------------------------------------------------------------------------
(* Vocabulary of the properties, stated on the records themselves *)

CheckOutOf(b) == b.checkInDate + b.numberOfNights

\* Half-open interval test: each booking starts before the other ends.
HalfOpenOverlap(a, b) ==
    a.checkInDate < CheckOutOf(b) /\ b.checkInDate < CheckOutOf(a)

GuestBooked(req, s) == \E b \in s : b.guestName = req.guestName

GuestBookedOnUnit(req, s) ==
    \E b \in s : b.guestName = req.guestName /\ b.unitID = req.unitID

UnitOccupied(req, s) ==
    \E b \in s : /\ b.unitID = req.unitID
                 /\ \/ b.checkInDate = req.checkInDate
                    \/ HalfOpenOverlap(b, req)

\* The numeric value of a well-formed, positive extraNights.
ValidExtra(raw) == raw.kind \in {"number", "numstr"} /\ raw.val > 0

CreateHandled == last.op = "create"

ExtendHandled == last.op = "extend"

Rejected(status, reason) ==
    /\ last.status = status
    /\ last.reason = reason
    /\ last.body = NoBooking

-----------------------------------------------------------------------------
\* C1: after any sequence of create and extend requests run one at a time, no
\* two distinct stored bookings of the same unit overlap (half-open test),
\* whatever numberOfNights createBooking let through.
C1_UnitNonOverlap ==
    \A a \in store : \A b \in store :
        (a.id # b.id /\ a.unitID = b.unitID) => ~HalfOpenOverlap(a, b)

\* C2: no two distinct stored bookings have the same guestName, and a create
\* request for a guest already in the store is rejected and stores nothing,
\* on the same unit or on another.
C2_GuestUniqueness ==
    /\ \A a \in store : \A b \in store : a.guestName = b.guestName => a = b
    /\ (CreateHandled /\ GuestBooked(last.req, before))
          => (last.status = 400 /\ last.body = NoBooking /\ store = before)

\* C2 witness: a guest holding a booking on one unit asked for another unit
\* and was rejected.
C2_Witness ==
    /\ CreateHandled
    /\ last.status = 400
    /\ \E b \in before : b.guestName = last.req.guestName /\ b.unitID # last.req.unitID

\* C3: createBooking's outcome is that of the first failing check, in the
\* order guest-on-unit, guest-anywhere, unit-occupied; with none failing the
\* request is accepted.
C3_ReasonPriority ==
    CreateHandled =>
        IF GuestBookedOnUnit(last.req, before)
            THEN Rejected(400, MSG_GUEST_UNIT_DUPLICATE)
        ELSE IF GuestBooked(last.req, before)
            THEN Rejected(400, MSG_GUEST_ALREADY_BOOKED)
        ELSE IF UnitOccupied(last.req, before)
            THEN Rejected(400, MSG_UNIT_OCCUPIED)
        ELSE last.status = 200

\* C3 witness: the guest is booked elsewhere and the requested unit is taken by
\* another guest on those dates; the guest rule gives the reason.
C3_Witness ==
    /\ CreateHandled
    /\ last.reason = MSG_GUEST_ALREADY_BOOKED
    /\ UnitOccupied(last.req, before)

\* C4: for a guest with no stored booking, createBooking answers UNIT_OCCUPIED
\* exactly when a stored booking of the same unit has the same check-in date
\* or overlaps the candidate; other units never cause a rejection.
C4_UnitAvailability ==
    (CreateHandled /\ ~GuestBooked(last.req, before))
        => /\ Rejected(400, MSG_UNIT_OCCUPIED) <=> UnitOccupied(last.req, before)
           /\ last.status = 200 <=> ~UnitOccupied(last.req, before)

\* C4 witness: a rejection caused by a booking of the same unit that starts on
\* another day and overlaps the candidate.
C4_Witness ==
    /\ CreateHandled
    /\ ~GuestBooked(last.req, before)
    /\ last.reason = MSG_UNIT_OCCUPIED
    /\ \A b \in before : b.unitID = last.req.unitID
                            => b.checkInDate # last.req.checkInDate

\* C5: a candidate of a guest with no stored booking is accepted when every
\* stored booking of the unit ends at or before its check-in or starts at or
\* after its checkout.
C5_BackToBack ==
    (/\ CreateHandled
     /\ ~GuestBooked(last.req, before)
     /\ \A o \in before : o.unitID = last.req.unitID
            => \/ CheckOutOf(o) <= last.req.checkInDate
               \/ o.checkInDate >= CheckOutOf(last.req))
        => last.status = 200

\* The extension window test of C6, on the table the request found.
WindowConflict(b, extra, s) ==
    \E o \in s : /\ o.id # b.id
                 /\ o.unitID = b.unitID
                 /\ CheckOutOf(b) < CheckOutOf(o)
                 /\ o.checkInDate < CheckOutOf(b) + extra

\* C6 (the equivalence alone): a valid extension of an existing booking is
\* answered 409 exactly when another booking of the unit meets the window test.
C6_ConflictIff ==
    (ExtendHandled /\ ValidExtra(last.req.extraNights)) =>
        \A b \in before : b.id = last.req.id =>
            /\ Rejected(409, MSG_EXTENSION_CONFLICT)
                  <=> WindowConflict(b, last.req.extraNights.val, before)
            /\ last.status = 200
                  <=> ~WindowConflict(b, last.req.extraNights.val, before)

\* C6: the equivalence, and in particular a booking of the same unit that
\* starts exactly at the current checkout blocks the extension.
C6_ExtensionConflict ==
    /\ C6_ConflictIff
    /\ (ExtendHandled /\ ValidExtra(last.req.extraNights)) =>
          \A b \in before : b.id = last.req.id =>
              ((\E o \in before : /\ o.id # b.id
                                  /\ o.unitID = b.unitID
                                  /\ o.checkInDate = CheckOutOf(b))
                  => Rejected(409, MSG_EXTENSION_CONFLICT))

\* C7: an accepted extension adds extraNights to the booking's numberOfNights,
\* keeps its other fields, changes no other booking, adds and removes none,
\* and returns the updated record.
C7_ExtensionEffect ==
    (ExtendHandled /\ last.status = 200) =>
        \E b \in before :
            /\ b.id = last.req.id
            /\ last.body.id = b.id
            /\ last.body.guestName = b.guestName
            /\ last.body.unitID = b.unitID
            /\ last.body.checkInDate = b.checkInDate
            /\ last.body.numberOfNights = b.numberOfNights + last.req.extraNights.val
            /\ last.body \in store
            /\ store \ {last.body} = before \ {b}
            /\ Cardinality(store) = Cardinality(before)

\* C7 witness: an extension was accepted while another booking was stored.
C7_Witness ==
    /\ ExtendHandled
    /\ last.status = 200
    /\ Cardinality(before) = 2

\* C8: every stored booking has numberOfNights >= 1, and an accepted extension
\* strictly increases the count.
C8_NightsPositive ==
    /\ \A b \in store : b.numberOfNights >= 1
    /\ (ExtendHandled /\ last.status = 200) =>
          \A b \in before : b.id = last.req.id
              => last.body.numberOfNights > b.numberOfNights

\* C9: an extend request whose extraNights is non-numeric, zero or negative is
\* answered INVALID_EXTRA_NIGHTS without any read or write, whether or not the
\* id exists, and the store is unchanged.
C9_InvalidExtraNights ==
    (ExtendHandled /\ ~ValidExtra(last.req.extraNights))
        => /\ Rejected(400, MSG_INVALID_EXTRA_NIGHTS)
           /\ last.reads = 0
           /\ last.writes = 0
           /\ store = before

\* C9 witness: extraNights 0 for an id that is not stored was answered 400.
C9_Witness ==
    /\ ExtendHandled
    /\ last.req.extraNights = [kind |-> "number", val |-> 0]
    /\ before # {}
    /\ \A b \in before : b.id # last.req.id
    /\ last.status = 400

\* C10: a valid extension request for an id that matches no stored booking is
\* answered BOOKING_NOT_FOUND after the lookup alone, and the store is unchanged.
C10_BookingNotFound ==
    (/\ ExtendHandled
     /\ ValidExtra(last.req.extraNights)
     /\ \A b \in before : b.id # last.req.id)
        => /\ Rejected(404, MSG_BOOKING_NOT_FOUND)
           /\ last.reads = 1
           /\ last.writes = 0
           /\ store = before

\* C10 witness: with bookings stored, an unknown id was answered 404.
C10_Witness ==
    /\ ExtendHandled
    /\ last.status = 404
    /\ before # {}

-----------------------------------------------------------------------------
\* C11: a handler invocation writes at most once, only after every check has
\* been made and passed, and a rejected invocation writes nothing and leaves
\* the store as it was.
C11_WriteDiscipline ==
    (CreateHandled \/ ExtendHandled) =>
        /\ last.writes \in {0, 1}
        /\ last.status # 200 => (last.writes = 0 /\ store = before)
        /\ last.writes = 1 =>
              /\ last.status = 200
              /\ last.reads = IF CreateHandled THEN 4 ELSE 2
              /\ Cardinality(store \ before) = 1

\* C11 witness: a create was rejected for an occupied unit while bookings
\* were stored.
C11_Witness ==
    /\ CreateHandled
    /\ last.reason = MSG_UNIT_OCCUPIED
    /\ last.writes = 0
    /\ before # {}

\* C12: an accepted create adds exactly one booking, with the candidate's
\* fields and an id no stored booking had, changes no stored booking, and
\* returns the new record.
C12_CreateEffect ==
    (CreateHandled /\ last.status = 200) =>
        /\ last.body.guestName = last.req.guestName
        /\ last.body.unitID = last.req.unitID
        /\ last.body.checkInDate = last.req.checkInDate
        /\ last.body.numberOfNights = last.req.numberOfNights
        /\ \A b \in before : b.id # last.body.id
        /\ last.body \notin before
        /\ store = before \cup {last.body}
        /\ Cardinality(store) = Cardinality(before) + 1

\* C12 witness: a create was accepted into a store that held a booking.
C12_Witness ==
    /\ CreateHandled
    /\ last.status = 200
    /\ before # {}

isBookingPossibleWithoutCheck3(booking, s) ==
    IF sameGuestSameUnit(booking, s) # {}
        THEN [result |-> FALSE, reason |-> MSG_GUEST_UNIT_DUPLICATE]
    ELSE IF sameGuestAlreadyBooked(booking, s) # {}
        THEN [result |-> FALSE, reason |-> MSG_GUEST_ALREADY_BOOKED]
    ELSE IF \E b \in unitCandidates(booking, s) :
               overlaps(booking.checkInDate,
                        addNights(booking.checkInDate, booking.numberOfNights),
                        b.checkInDate,
                        addNights(b.checkInDate, b.numberOfNights))
        THEN [result |-> FALSE, reason |-> MSG_UNIT_OCCUPIED]
    ELSE [result |-> TRUE, reason |-> MSG_OK]

\* C16: on every reachable store the variant without check 3 gives every
\* candidate the result and reason that createBooking gave.
C16_Check3Subsumed ==
    CreateHandled =>
        LET variant == isBookingPossibleWithoutCheck3(last.req, before) IN
        /\ variant.result = (last.status = 200)
        /\ variant.reason = last.reason

\* The booking b as it would be after an extension by extra nights.
Extended(b, extra) == [b EXCEPT !.numberOfNights = b.numberOfNights + extra]

\* C17: in every reachable store, for every stored booking and every positive
\* extraNights, the extension window test admits the extension exactly when
\* the extended interval overlaps no other booking of the unit.
C17_WindowAgreesWithOverlap ==
    \A b \in store : \A extra \in 1..MaxNights :
        ~extensionConflict(b, extra, store)
            <=> ~\E o \in store : /\ o.id # b.id
                                  /\ o.unitID = b.unitID
                                  /\ HalfOpenOverlap(Extended(b, extra), o)

\* C18 as stated: no create request is ever answered GUEST_UNIT_DUPLICATE;
\* a request of a stored guest is answered GUEST_ALREADY_BOOKED.
C18_DuplicateUnreachable ==
    CreateHandled =>
        /\ last.reason # MSG_GUEST_UNIT_DUPLICATE
        /\ GuestBooked(last.req, before) => last.reason = MSG_GUEST_ALREADY_BOOKED

\* C18 amended: GUEST_UNIT_DUPLICATE is the answer exactly when the guest holds
\* a booking on the requested unit, and GUEST_ALREADY_BOOKED exactly when the
\* guest holds bookings on other units only.
C18_DuplicateWhenSameUnit ==
    CreateHandled =>
        /\ last.reason = MSG_GUEST_UNIT_DUPLICATE
              <=> GuestBookedOnUnit(last.req, before)
        /\ last.reason = MSG_GUEST_ALREADY_BOOKED
              <=> (GuestBooked(last.req, before)
                     /\ ~GuestBookedOnUnit(last.req, before))

\* C18 witness: a guest asked again for the unit it holds and was answered
\* GUEST_UNIT_DUPLICATE.
C18_Witness ==
    /\ CreateHandled
    /\ last.status = 400
    /\ last.reason = MSG_GUEST_UNIT_DUPLICATE
    /\ GuestBookedOnUnit(last.req, before)

-----------------------------------------------------------------------------
(* Vocabulary of the properties on interleaved invocations *)

Accepted(p, op) ==
    procs[p].op = op /\ procs[p].pc = "done" /\ procs[p].status = 200

\* The value of a valid extraNights as the request carries it.
ExtraOf(p) == procs[p].req.extraNights.val

\* C13: a create handler whose checks all passed commits its booking whatever
\* another handler committed in the meantime; so two creates for the same
\* unit and overlapping dates that both finish isBookingPossible before either
\* create commits are both accepted and both stored.
C13_RaceBothAccepted ==
    [][\A p \in Procs :
          (procs[p].pc = "create" /\ procs'[p].pc # "create")
              => /\ procs'[p].status = 200
                 /\ procs'[p].body \in store'
                 /\ procs'[p].body \notin store
                 /\ store \subseteq store']_vars

\* C13 witness: on a table that was empty, two creates of different guests for
\* the same unit, each of at least one night, were both accepted and their
\* stored bookings overlap.
C13_Witness ==
    /\ before = {}
    /\ \E p \in Procs : \E q \in Procs :
          /\ p # q
          /\ Accepted(p, "create")
          /\ Accepted(q, "create")
          /\ procs[p].body \in store
          /\ procs[q].body \in store
          /\ procs[p].body.guestName # procs[q].body.guestName
          /\ procs[p].body.unitID = procs[q].body.unitID
          /\ procs[p].body.numberOfNights >= 1
          /\ procs[q].body.numberOfNights >= 1
          /\ HalfOpenOverlap(procs[p].body, procs[q].body)

\* C14: under the serialization of requests on the same unit or guest, no
\* two stored bookings of a unit overlap and no guest holds two bookings.
C14_SerializedInvariants ==
    \A a \in store : \A b \in store :
        a.id # b.id =>
            /\ a.guestName # b.guestName
            /\ a.unitID = b.unitID => ~HalfOpenOverlap(a, b)

\* Two accepted extensions of the one booking the table held.
BothExtended(p, q, b) ==
    /\ p # q
    /\ Accepted(p, "extend")
    /\ Accepted(q, "extend")
    /\ procs[p].req.id = b.id
    /\ procs[q].req.id = b.id

\* C19 as stated: after two accepted extensions of the same booking, however
\* interleaved, the stored numberOfNights is the original plus both.
C19_NoLostExtension ==
    \A b \in before : \A p \in Procs : \A q \in Procs :
        BothExtended(p, q, b) =>
            \E r \in store :
                /\ r.id = b.id
                /\ r.numberOfNights = b.numberOfNights + ExtraOf(p) + ExtraOf(q)

\* C19 amended: the stored numberOfNights is the original plus both when one
\* handler read the booking after the other's update; when both read it
\* before either update, it is the original plus the extraNights of one of
\* them only.
C19_ExtensionsAddWhenSerialized ==
    \A b \in before : \A p \in Procs : \A q \in Procs :
        BothExtended(p, q, b) =>
            \E r \in store :
                /\ r.id = b.id
                /\ IF /\ procs[p].booking.numberOfNights = b.numberOfNights
                      /\ procs[q].booking.numberOfNights = b.numberOfNights
                      THEN r.numberOfNights \in {b.numberOfNights + ExtraOf(p),
                                                 b.numberOfNights + ExtraOf(q)}
                      ELSE r.numberOfNights
                              = b.numberOfNights + ExtraOf(p) + ExtraOf(q)

\* C19 witness: two extensions of the same booking were accepted after both
\* had read it; the stored count carries the extraNights of one of them only.
C19_Witness ==
    \E b \in before : \E p \in Procs : \E q \in Procs :
        /\ BothExtended(p, q, b)
        /\ procs[p].booking.numberOfNights = b.numberOfNights
        /\ procs[q].booking.numberOfNights = b.numberOfNights
        /\ \E r \in store :
              /\ r.id = b.id
              /\ r.numberOfNights = b.numberOfNights + ExtraOf(q)

=============================================================================
